---- MODULE Spec2Model ----
(***************************************************************************)
(* Model of the enhanced-Wikitext dataset readers of kglm                   *)
(* (kglm/data/dataset_readers/enhanced_wikitext.py).                        *)
(*                                                                          *)
(* Strings that the code inspects character by character (entity ids) are  *)
(* sequences of one-character strings, so that raw_entity_id[0] is the      *)
(* first element; every other token is a one-element sequence holding the   *)
(* whole string.  Python lists are sequences: Python index p is TLA+ index  *)
(* p + 1.  Values stored in the arrays (shortlist indices, alias indices)   *)
(* are the Python values.                                                   *)
(***************************************************************************)
EXTENDS Integers, Sequences, FiniteSets, TLC

\* ------------------------------------------------------------------ bounds
\* Longest document (number of flattened tokens, sentinels not counted).
MaxTokens == 2
\* Longest annotation list of a document.
MaxAnnotations == 2
MaxNlmAnnotations == 3
\* Length of the longest parent / relation list an annotation supplies.
LongLen == 12
\* Largest batch, number of positions of a chunk, number of forward calls.
MaxBatch == 2
SeqLen == 2
MaxCalls == 2
\* Number of layers of the encoder and cutoff of the recency cache.
NumLayers == 2
Cutoff == 2
MaxLossCalls == 1

\* --------------------------------------------------------------- constants
MAX_PARENTS == 10

DEFAULT_PADDING_TOKEN == <<"@@PADDING@@">>
START_TOKEN == <<"@@START@@">>
END_TOKEN == <<"@@END@@">>
NEW_RELATION == <<"@@NEW@@">>
DATE == <<"@@DATE@@">>
QUANTITY == <<"@@QUANTITY@@">>
\* Python's None (the result of normalize_entity_id on an untrackable id).
None == <<"None">>

Modes == {"generative", "discriminative"}

\* ------------------------------------------------------------------ inputs
Q1 == <<"Q", "1">>
Q2 == <<"Q", "2">>
P3 == <<"P", "3">>
T1 == <<"T", "1">>
T2 == <<"T", "2">>
V1 == <<"V", "1">>
X1 == <<"X", "1">>

\* The k-th relation name of a derived annotation.
RelName(k) == <<"R", ToString(k)>>

\* Parent ids cycle through every kind of raw id normalize_entity_id knows.
ParentCycle == <<Q1, T1, X1, V1, P3, Q2>>
ParentName(k) == ParentCycle[((k - 1) % Len(ParentCycle)) + 1]

NewMention(id) == [id |-> id, parent_id |-> <<>>, relation |-> <<NEW_RELATION>>]
DerivedMention(id, K) ==
    [id |-> id,
     parent_id |-> [k \in 1..K |-> ParentName(k)],
     relation |-> [k \in 1..K |-> RelName(k)]]

\* The (id, parent_id, relation) parts of the annotations a document may hold.
Mentions ==
    { NewMention(Q1), NewMention(T1), NewMention(X1),
      DerivedMention(T2, 3), DerivedMention(Q2, LongLen) }

\* The words of a document: word k of the flattened text.
Vocab == << <<"A">>, <<"B">> >>
Word(k) == Vocab[((k - 1) % Len(Vocab)) + 1]
Words(lo, hi) == [k \in 1..(hi - lo + 1) |-> Word(lo + k - 1)]

\* data['tokens']: n words in two groups, the first holding cut of them.
NestedTokens(n, cut) == << Words(1, cut), Words(cut + 1, n) >>

\* ------------------------------------------------------------ pure helpers
RECURSIVE _flatten(_)
_flatten(nested) ==
    IF nested = <<>> THEN <<>> ELSE Head(nested) \o _flatten(Tail(nested))

normalize_entity_id(raw_entity_id) ==
    IF raw_entity_id[1] = "T" THEN DATE
    ELSE IF raw_entity_id[1] = "V" THEN QUANTITY
    ELSE IF raw_entity_id[1] \in {"P", "Q"} THEN raw_entity_id
    ELSE None

\* Mutant of Range: the end of the span is included.
RangeInclusive(span) == span[1] .. span[2]

\* range(start, end)
Range(span) == span[1] .. (span[2] - 1)

\* seq[:k]
Slice(seq, k) == SubSeq(seq, 1, IF Len(seq) < k THEN Len(seq) ELSE k)

\* [value] * n
Repeat(value, n) == [p \in 1..n |-> value]

\* Python list indexing: a negative index counts from the end.
Resolve(q, len) == IF q < 0 THEN q + len ELSE q
InBounds(q, len) == Resolve(q, len) >= 0 /\ Resolve(q, len) < len

\* arr after `for i in range(*span): arr[i+offset] = value[i]`.
Write(arr, span, offset, value) ==
    [p \in 1..Len(arr) |->
        LET hits == { i \in Range(span) : Resolve(i + offset, Len(arr)) = p - 1 }
        IN IF hits = {} THEN arr[p]
           ELSE value[CHOOSE i \in hits : \A j \in hits : j <= i]]

\* Whether some arr[i+offset] of the loop raises IndexError.
RaisesIndexError(len, span, offset) ==
    \E i \in Range(span) : ~InBounds(i + offset, len)

\* ------------------------------------------------------ alias database
\* The surface-form tokens of each entity, in rank order.
Aliases(raw_entity_id) ==
    IF raw_entity_id = Q1 THEN << <<"A">>, <<"B">> >>
    ELSE IF raw_entity_id = Q2 THEN << <<"B">> >>
    ELSE <<>>

\* 1-based rank of token among the entity's aliases, 0 when absent.
token_to_uid(raw_entity_id, token) ==
    LET al == Aliases(raw_entity_id)
        ranks == { k \in 1..Len(al) : al[k] = token }
    IN IF ranks = {} THEN 0 ELSE CHOOSE k \in ranks : \A j \in ranks : k <= j

\* ------------------------------------------------- indexer dictionaries
\* An indexers argument is None or a dict from names to token indexers; an
\* indexer is modelled by the name of its class.
PyNone == [none |-> TRUE, items |-> {}]
Dict(items) == [none |-> FALSE, items |-> items]

\* `x or default`: None and the empty dict are falsy.
OrDefault(x, default) == IF x.none \/ x.items = {} THEN default ELSE x

\* `key in d`, `d[key]`
HasKey(d, key) == \E it \in d.items : it[1] = key
Get(d, key) == (CHOOSE it \in d.items : it[1] = key)[2]

\* isinstance(indexer, SingleIdTokenIndexer)
IsSingleId(indexer) == indexer = "SingleIdTokenIndexer"

\* Mutant of MissingIndexer: the class of the indexer is not looked at.
MissingIndexerKeyOnly(d, key) == ~HasKey(d, key)

\* `key not in d or not isinstance(d[key], SingleIdTokenIndexer)`
MissingIndexer(d, key) == ~HasKey(d, key) \/ ~IsSingleId(Get(d, key))

\* The default of each indexers argument.
DefaultIndexers(key) == Dict({<<key, "SingleIdTokenIndexer">>})

\* The indexers arguments a reader may be constructed with.
IndexerArgs(key) ==
    { PyNone, Dict({}),
      Dict({<<key, "SingleIdTokenIndexer">>}),
      Dict({<<key, "TokenCharactersIndexer">>}),
      Dict({<<"other", "SingleIdTokenIndexer">>}) }
ModeArgs == Modes \cup {"other"}

\* No __init__ is running.
NoArgs ==
    [mode |-> "unset", token_indexers |-> PyNone, entity_indexers |-> PyNone,
     raw_entity_indexers |-> PyNone, relation_indexers |-> PyNone]

\* ------------------------------------------------------------------- state
VARIABLES
    pc,                 \* position of the reader: idle, loop, done, IndexError
    mode,               \* self._mode
    tokens,             \* START + flattened tokens + END
    annotations,        \* the annotations of data['annotations'] iterated so far
    shortlist, reverse_shortlist,
    raw_entity_ids, entity_ids, relations, parent_ids,
    shortlist_inds, mention_type, alias_copy_inds,
    fields,             \* names of the fields of the Instance returned
    seen_entities, entity_types, nlm_entity_ids, mention_lengths,
    args,               \* the arguments of a running __init__
    token_indexers, entity_indexers, raw_entity_indexers, relation_indexers,
    op,                 \* KglmDisc: the last call (init, forward, train, eval)
    raised,             \* the exception the last forward raised, or "none"
    calls,              \* number of forward calls so far
    training,           \* self.training
    use_shortlist,      \* self._use_shortlist
    _state,             \* self._state: None or, per layer and slot, (h, c)
    recent,             \* self._recent_entities: per slot, the recent entities
    reset,              \* the reset flags of the last forward
    batch,              \* the labels of the last forward, per slot and position
    prev_hidden,        \* per layer, the prev_hidden the last forward gave the rnn
    candidate_ids, candidate_mask,  \* what self._recent_entities returned
    penalty_args,       \* the alpha and beta arguments of KglmDisc.__init__
    _alpha, _beta,      \* self._alpha, self._beta
    loss,               \* the 'loss' the last forward returned
    new_entity_terms,   \* per slot and position, the term of the new-entity loss
    accuracy_positions, \* the positions the last forward gave _new_entity_accuracy
    parent_log_probs,   \* per slot, position and parent, the last forward's value
    relation_log_probs, \* per slot, position and parent, the last forward's value
    appended            \* history: per slot, the entities added since its last reset

readerVars == <<pc, mode, tokens, annotations, fields>>
kglmVars == <<shortlist, reverse_shortlist, raw_entity_ids, entity_ids, relations,
              parent_ids, shortlist_inds, mention_type, alias_copy_inds>>
nlmVars == <<seen_entities, entity_types, nlm_entity_ids, mention_lengths>>
configVars == <<args, token_indexers, entity_indexers, raw_entity_indexers,
                relation_indexers>>
discVars == <<op, raised, calls, training, use_shortlist, _state, recent, reset,
              batch, prev_hidden, candidate_ids, candidate_mask, new_entity_terms,
              accuracy_positions, parent_log_probs, relation_log_probs, appended,
              penalty_args, _alpha, _beta, loss>>
vars == <<readerVars, kglmVars, nlmVars, configVars, discVars>>

\* -------------------------------------------------- EnhancedWikitextKglmReader
\* Mutant of TargetLen: the arrays get the length of tokens, not of target.
TargetLenOfTokens(toks) == Len(toks)

\* len(target): target = tokens[1:]
TargetLen(toks) == Len(Tail(toks))

\* Mutant of Offset: the discriminative offset is forgotten.
OffsetZero(m) == 0

\* offset = 0 if self._mode == "generative" else 1
Offset(m) == IF m = "generative" THEN 0 ELSE 1

\* Mutant of Skipped: untrackable annotations are processed like the others.
SkippedNever(entity_id) == FALSE

\* `if entity_id is None: continue`
Skipped(entity_id) == entity_id = None

\* Mutant of UpdateReverseShortlist: the new index is one too large.
UpdateReverseShortlistOffByOne(rs, entity_id) ==
    IF entity_id \notin DOMAIN rs
    THEN [x \in (DOMAIN rs) \cup {entity_id} |->
             IF x = entity_id THEN Cardinality(DOMAIN rs) + 1 ELSE rs[x]]
    ELSE rs

\* reverse_shortlist after `if entity_id not in reverse_shortlist: ...`
UpdateReverseShortlist(rs, entity_id) ==
    IF entity_id \notin DOMAIN rs
    THEN [x \in (DOMAIN rs) \cup {entity_id} |->
             IF x = entity_id THEN Cardinality(DOMAIN rs) ELSE rs[x]]
    ELSE rs

\* Mutant of UpdateShortlist: the entity is appended at every mention.
UpdateShortlistAlways(sl, rs, entity_id) == Append(sl, entity_id)

\* shortlist after `if entity_id not in reverse_shortlist: ...`
UpdateShortlist(sl, rs, entity_id) ==
    IF entity_id \notin DOMAIN rs THEN Append(sl, entity_id) ELSE sl

\* Mutant of Truncate: the lists are kept whole.
TruncateNothing(seq) == seq

\* relation[:MAX_PARENTS], parent_id[:MAX_PARENTS]
Truncate(seq) == Slice(seq, MAX_PARENTS)

\* parent_id = [normalize_entity_id(x) for x in raw_parent_id]
NormalizeParents(raw_parent_id) ==
    [k \in 1..Len(raw_parent_id) |-> normalize_entity_id(raw_parent_id[k])]

\* new_entity = relation == ['@@NEW@@']
IsNewEntity(relation) == relation = <<NEW_RELATION>>

\* The names of the label fields of an instance with annotations.
LabelFields(m) ==
    {"raw_entity_ids", "entity_ids", "parent_ids", "relations", "mention_type",
     "shortlist", "shortlist_inds"}
    \cup (IF m = "generative" THEN {"alias_copy_inds"} ELSE {})

InitReader ==
    /\ pc = "idle"
    /\ mode \in Modes
    /\ tokens = <<>>
    /\ annotations = <<>>
    /\ fields = {}
    /\ shortlist = <<>>
    /\ reverse_shortlist = <<>>
    /\ raw_entity_ids = <<>>
    /\ entity_ids = <<>>
    /\ relations = <<>>
    /\ parent_ids = <<>>
    /\ shortlist_inds = <<>>
    /\ mention_type = <<>>
    /\ alias_copy_inds = <<>>
    /\ seen_entities = {}
    /\ entity_types = <<>>
    /\ nlm_entity_ids = <<>>
    /\ mention_lengths = <<>>

\* There is no scorer.
NoScorer ==
    /\ op = "none"
    /\ raised = "none"
    /\ calls = 0
    /\ training = FALSE
    /\ use_shortlist = FALSE
    /\ _state = <<>>
    /\ recent = <<>>
    /\ reset = <<>>
    /\ batch = <<>>
    /\ prev_hidden = <<>>
    /\ candidate_ids = <<>>
    /\ candidate_mask = <<>>
    /\ new_entity_terms = <<>>
    /\ accuracy_positions = {}
    /\ parent_log_probs = <<>>
    /\ relation_log_probs = <<>>
    /\ appended = <<>>
    /\ penalty_args = <<>>
    /\ _alpha = 0
    /\ _beta = 0
    /\ loss = <<>>

\* A constructed reader: the indexers are the defaults, no __init__ runs.
Constructed ==
    /\ args = NoArgs
    /\ token_indexers = DefaultIndexers("tokens")
    /\ entity_indexers = DefaultIndexers("entity_ids")
    /\ raw_entity_indexers = DefaultIndexers("raw_entity_ids")
    /\ relation_indexers = DefaultIndexers("relations")

Init == InitReader /\ Constructed /\ NoScorer

\* text_to_instance up to the annotation loop: flatten and pad the tokens,
\* initialise the book keeping and the label arrays.
TextToInstance(data_tokens, has_annotations) ==
    /\ pc = "idle"
    /\ LET toks == <<START_TOKEN>> \o _flatten(data_tokens) \o <<END_TOKEN>>
           len == TargetLen(toks)
       IN /\ tokens' = toks
          /\ annotations' = <<>>
          /\ IF has_annotations
             THEN /\ pc' = "loop"
                  /\ fields' = {}
                  /\ shortlist' = <<DEFAULT_PADDING_TOKEN>>
                  /\ reverse_shortlist' = [x \in {DEFAULT_PADDING_TOKEN} |-> 0]
                  /\ raw_entity_ids' = Repeat(DEFAULT_PADDING_TOKEN, len)
                  /\ entity_ids' = Repeat(DEFAULT_PADDING_TOKEN, len)
                  /\ relations' = Repeat(<<DEFAULT_PADDING_TOKEN>>, len)
                  /\ parent_ids' = Repeat(<<DEFAULT_PADDING_TOKEN>>, len)
                  /\ shortlist_inds' = Repeat(0, len)
                  /\ mention_type' = Repeat(0, len)
                  /\ alias_copy_inds' =
                        IF mode = "generative" THEN Repeat(0, len) ELSE <<>>
             ELSE /\ pc' = "done"
                  /\ fields' = {"source", "metadata"}
                        \cup (IF mode = "generative" THEN {"target"} ELSE {})
                  /\ shortlist' = <<>>
                  /\ reverse_shortlist' = <<>>
                  /\ raw_entity_ids' = <<>>
                  /\ entity_ids' = <<>>
                  /\ relations' = <<>>
                  /\ parent_ids' = <<>>
                  /\ shortlist_inds' = <<>>
                  /\ mention_type' = <<>>
                  /\ alias_copy_inds' = <<>>
    /\ UNCHANGED <<configVars, discVars, mode, nlmVars>>

\* One iteration of `for annotation in data['annotations']`.
ProcessAnnotation(annotation) ==
    /\ pc = "loop"
    /\ Len(annotations) < MaxAnnotations
    /\ annotations' = Append(annotations, annotation)
    /\ LET raw_entity_id == annotation.id
           raw_parent_id == annotation.parent_id
           entity_id == normalize_entity_id(raw_entity_id)
           parent_id == NormalizeParents(raw_parent_id)
           relation == annotation.relation
           new_entity == IsNewEntity(relation)
           rs == UpdateReverseShortlist(reverse_shortlist, entity_id)
           shortlist_ind == rs[entity_id]
           offset == Offset(mode)
           span == annotation.span
       IN IF Skipped(entity_id)
          THEN UNCHANGED <<pc, kglmVars>>
          ELSE /\ reverse_shortlist' = rs
               /\ shortlist' = UpdateShortlist(shortlist, reverse_shortlist, entity_id)
               /\ IF RaisesIndexError(Len(raw_entity_ids), span, offset)
                  THEN /\ pc' = "IndexError"
                       /\ UNCHANGED <<raw_entity_ids, entity_ids, relations, parent_ids,
                                      shortlist_inds, mention_type, alias_copy_inds>>
                  ELSE /\ pc' = pc
                       /\ raw_entity_ids' =
                             Write(raw_entity_ids, span, offset, [i \in Range(span) |-> raw_entity_id])
                       /\ entity_ids' =
                             Write(entity_ids, span, offset, [i \in Range(span) |-> entity_id])
                       /\ mention_type' =
                             Write(mention_type, span, offset,
                                   [i \in Range(span) |-> IF new_entity THEN 1 ELSE 2])
                       /\ shortlist_inds' =
                             IF new_entity
                             THEN Write(shortlist_inds, span, offset,
                                        [i \in Range(span) |-> shortlist_ind])
                             ELSE shortlist_inds
                       /\ relations' =
                             IF new_entity THEN relations
                             ELSE Write(relations, span, offset,
                                        [i \in Range(span) |-> Truncate(relation)])
                       /\ parent_ids' =
                             IF new_entity THEN parent_ids
                             ELSE Write(parent_ids, span, offset,
                                        [i \in Range(span) |-> Truncate(parent_id)])
                       /\ alias_copy_inds' =
                             IF mode = "generative"
                             THEN Write(alias_copy_inds, span, offset,
                                        [i \in Range(span) |-> token_to_uid(raw_entity_id,
                                                                tokens[(i + 1) + 1])])
                             ELSE alias_copy_inds
    /\ UNCHANGED <<configVars, discVars, mode, tokens, fields, nlmVars>>

\* The end of text_to_instance: the arrays become the fields of the Instance.
ConvertToFields ==
    /\ pc = "loop"
    /\ pc' = "done"
    /\ fields' = {"source", "metadata"}
                  \cup (IF mode = "generative" THEN {"target"} ELSE {})
                  \cup LabelFields(mode)
    /\ UNCHANGED <<configVars, discVars, mode, tokens, annotations, kglmVars, nlmVars>>

\* The documents and annotations the reader is given.
Spans(n) == { <<s, e>> \in (0..n) \X (0..n) : s <= e }
Annotation(m, span) ==
    [id |-> m.id, parent_id |-> m.parent_id, relation |-> m.relation, span |-> span]

Next ==
    \/ \E n \in 0..MaxTokens : \E cut \in 0..n : \E has_annotations \in BOOLEAN :
          TextToInstance(NestedTokens(n, cut), has_annotations)
    \/ \E m \in Mentions : \E span \in Spans(Len(tokens) - 2) :
          ProcessAnnotation(Annotation(m, span))
    \/ ConvertToFields

Spec == Init /\ [][Next]_vars

\* ---------------------------------------------- EnhancedWikitextEntityNlmReader
InitNlm ==
    /\ pc = "idle"
    /\ mode = "none"
    /\ tokens = <<>>
    /\ annotations = <<>>
    /\ fields = {}
    /\ shortlist = <<>>
    /\ reverse_shortlist = <<>>
    /\ raw_entity_ids = <<>>
    /\ entity_ids = <<>>
    /\ relations = <<>>
    /\ parent_ids = <<>>
    /\ shortlist_inds = <<>>
    /\ mention_type = <<>>
    /\ alias_copy_inds = <<>>
    /\ seen_entities = {}
    /\ entity_types = <<>>
    /\ nlm_entity_ids = <<>>
    /\ mention_lengths = <<>>
    /\ args = NoArgs
    /\ token_indexers = DefaultIndexers("tokens")
    /\ entity_indexers = PyNone
    /\ raw_entity_indexers = PyNone
    /\ relation_indexers = PyNone
    /\ NoScorer

\* Mutant of MentionLength: `length` is never decremented.
MentionLengthConstant(span, i) == span[2] - span[1]

\* mention_lengths[i+1] for token i of a span starting at start: `length`
\* starts at end - start and is decremented once per token.
MentionLength(span, i) == (span[2] - span[1]) - (i - span[1])

\* entity_ids[i+1] = len(seen_entities)
EntityIndex(seen) == Cardinality(seen)

\* text_to_instance up to the annotation loop.
NlmTextToInstance(data_tokens, has_annotations) ==
    /\ pc = "idle"
    /\ LET toks == <<START_TOKEN>> \o _flatten(data_tokens) \o <<END_TOKEN>>
       IN /\ tokens' = toks
          /\ annotations' = <<>>
          /\ seen_entities' = {}
          /\ IF has_annotations
             THEN /\ pc' = "loop"
                  /\ fields' = {}
                  /\ entity_types' = Repeat(0, Len(toks))
                  /\ nlm_entity_ids' = Repeat(0, Len(toks))
                  /\ mention_lengths' = Repeat(1, Len(toks))
             ELSE /\ pc' = "done"
                  /\ fields' = {"tokens"}
                  /\ entity_types' = <<>>
                  /\ nlm_entity_ids' = <<>>
                  /\ mention_lengths' = <<>>
    /\ UNCHANGED <<configVars, discVars, mode, kglmVars>>

\* One iteration of `for annotation in data['annotations']`.
NlmProcessAnnotation(annotation) ==
    /\ pc = "loop"
    /\ Len(annotations) < MaxNlmAnnotations
    /\ annotations' = Append(annotations, annotation)
    /\ LET seen == seen_entities \cup {annotation.id}
           span == annotation.span
       IN /\ seen_entities' = seen
          /\ IF RaisesIndexError(Len(entity_types), span, 1)
             THEN /\ pc' = "IndexError"
                  /\ UNCHANGED <<entity_types, nlm_entity_ids, mention_lengths>>
             ELSE /\ pc' = pc
                  /\ entity_types' = Write(entity_types, span, 1, [i \in Range(span) |-> 1])
                  /\ nlm_entity_ids' =
                        Write(nlm_entity_ids, span, 1, [i \in Range(span) |-> EntityIndex(seen)])
                  /\ mention_lengths' =
                        Write(mention_lengths, span, 1,
                              [i \in Range(span) |-> MentionLength(span, i)])
    /\ UNCHANGED <<configVars, discVars, mode, tokens, fields, kglmVars>>

\* The end of text_to_instance: the arrays become the fields of the Instance.
NlmConvertToFields ==
    /\ pc = "loop"
    /\ pc' = "done"
    /\ fields' = {"tokens", "entity_types", "entity_ids", "mention_lengths"}
    /\ UNCHANGED <<configVars, discVars, mode, tokens, annotations, kglmVars, nlmVars>>

\* The annotations this reader is given: it reads their id and span only.
NlmMentions == { NewMention(Q1), DerivedMention(T2, 3) }

NextNlm ==
    \/ \E n \in 0..MaxTokens : \E cut \in 0..n : \E has_annotations \in BOOLEAN :
          NlmTextToInstance(NestedTokens(n, cut), has_annotations)
    \/ \E m \in NlmMentions : \E span \in Spans(Len(tokens) - 2) :
          NlmProcessAnnotation(Annotation(m, span))
    \/ NlmConvertToFields

SpecNlm == InitNlm /\ [][NextNlm]_vars

\* ------------------------------------- EnhancedWikitextKglmReader.__init__
\* Before construction: there is no reader yet.
InitConfig ==
    /\ pc = "new"
    /\ mode = "unset"
    /\ tokens = <<>>
    /\ annotations = <<>>
    /\ fields = {}
    /\ shortlist = <<>>
    /\ reverse_shortlist = <<>>
    /\ raw_entity_ids = <<>>
    /\ entity_ids = <<>>
    /\ relations = <<>>
    /\ parent_ids = <<>>
    /\ shortlist_inds = <<>>
    /\ mention_type = <<>>
    /\ alias_copy_inds = <<>>
    /\ seen_entities = {}
    /\ entity_types = <<>>
    /\ nlm_entity_ids = <<>>
    /\ mention_lengths = <<>>
    /\ args = NoArgs
    /\ token_indexers = PyNone
    /\ entity_indexers = PyNone
    /\ raw_entity_indexers = PyNone
    /\ relation_indexers = PyNone
    /\ NoScorer

\* EnhancedWikitextKglmReader(mode=..., token_indexers=..., ...) is called.
Construct(a) ==
    /\ pc = "new"
    /\ pc' = "__init__"
    /\ args' = a
    /\ UNCHANGED <<mode, tokens, annotations, fields, kglmVars, nlmVars,
                   token_indexers, entity_indexers, raw_entity_indexers,
                   relation_indexers, discVars>>

\* The body of __init__: the mode check, the defaults, the four indexer
\* checks.  A raise leaves what was assigned before it.
RunInit ==
    /\ pc = "__init__"
    /\ args' = NoArgs
    /\ IF args.mode \notin {"discriminative", "generative"}
       THEN /\ pc' = "ConfigurationError"
            /\ UNCHANGED <<mode, token_indexers, entity_indexers,
                           raw_entity_indexers, relation_indexers>>
       ELSE LET ti == OrDefault(args.token_indexers, DefaultIndexers("tokens"))
                ei == OrDefault(args.entity_indexers, DefaultIndexers("entity_ids"))
                ri == OrDefault(args.raw_entity_indexers,
                                DefaultIndexers("raw_entity_ids"))
                li == OrDefault(args.relation_indexers, DefaultIndexers("relations"))
            IN /\ mode' = args.mode
               /\ token_indexers' = ti
               /\ entity_indexers' = ei
               /\ raw_entity_indexers' = ri
               /\ relation_indexers' = li
               /\ pc' = IF \/ MissingIndexer(ti, "tokens")
                           \/ MissingIndexer(ei, "entity_ids")
                           \/ MissingIndexer(ri, "raw_entity_ids")
                           \/ MissingIndexer(li, "relations")
                        THEN "ConfigurationError"
                        ELSE "idle"
    /\ UNCHANGED <<tokens, annotations, fields, kglmVars, nlmVars, discVars>>

NextConfig ==
    \/ \E m \in ModeArgs :
       \E ti \in IndexerArgs("tokens") : \E ei \in IndexerArgs("entity_ids") :
       \E ri \in IndexerArgs("raw_entity_ids") : \E li \in IndexerArgs("relations") :
          Construct([mode |-> m, token_indexers |-> ti, entity_indexers |-> ei,
                     raw_entity_indexers |-> ri, relation_indexers |-> li])
    \/ RunInit
    \/ Next

SpecConfig == InitConfig /\ [][NextConfig]_vars

\* ------------------------------------------------------------------ KglmDisc
\* Tensors over the batch are sequences over the slots 1..B; a tensor over
\* the sequence is a sequence over the positions 1..SeqLen (position t of
\* the text is index t here, the first being 1).  Ids are vocabulary
\* indices, 0 being the padding index.

\* The label of one position, as the discriminative reader encodes it.
NoMention ==
    [mention_type |-> 0, entity_id |-> 0, raw_entity_id |-> 0, shortlist_ind |-> 0,
     parent_ids |-> <<0, 0>>]
NewLabel(e) ==
    [mention_type |-> 1, entity_id |-> e, raw_entity_id |-> e, shortlist_ind |-> e,
     parent_ids |-> <<0, 0>>]
DerivedLabel(e, parents) ==
    [mention_type |-> 2, entity_id |-> e, raw_entity_id |-> e, shortlist_ind |-> 0,
     parent_ids |-> parents]

\* The chunks of text a slot may hold: chunk k starts at label k of the cycle.
LabelCycle ==
    << NewLabel(1), DerivedLabel(2, <<1, 0>>), NoMention, NewLabel(3),
       DerivedLabel(1, <<3, 2>>), DerivedLabel(3, <<4, 1>>) >>
Chunk(k) == [t \in 1..SeqLen |-> LabelCycle[((k + t - 2) % Len(LabelCycle)) + 1]]
\* The batches a call may hold: slot s holds chunk k + s - 1.
Batch(k, B) == [s \in 1..B |-> Chunk(k + s - 1)]

\* The elements of a sequence.
Elems(seq) == { seq[k] : k \in 1..Len(seq) }

\* --- the knowledge graph and KnowledgeGraphLookup
\* The edges (head, relation, tail): entity 3 has no outgoing edge, entity 4
\* is not in the graph.
Edges == { <<1, 1, 2>>, <<1, 2, 2>>, <<1, 3, 1>>, <<2, 1, 1>>, <<2, 2, 3>> }
EdgesFrom(entity) == { <<e[2], e[3]>> : e \in { e \in Edges : e[1] = entity } }

\* The (slot, position, parent slot) indices KnowledgeGraphLookup returns a
\* group of edges for: those of the non-padding parents that have edges.
KnowledgeGraphLookup(labels) ==
    { ix \in (1..Len(labels)) \X (1..SeqLen) \X (1..2) :
         LET parent == labels[ix[1]][ix[2]].parent_ids[ix[3]]
         IN parent # 0 /\ EdgesFrom(parent) # {} }

\* --- RecentEntities
\* The cache of a slot is the sequence of its recent entities, oldest first.
Insert(cache, e) ==
    IF e = 0 THEN cache
    ELSE LET longer == Append(SelectSeq(cache, LAMBDA x : x # e), e)
         IN IF Len(longer) > Cutoff THEN Tail(longer) ELSE longer

\* The cache of a slot before the entity of position t is added.
RECURSIVE CacheBefore(_, _, _)
CacheBefore(cache, ents, t) ==
    IF t = 1 THEN cache
    ELSE Insert(CacheBefore(cache, ents, t - 1), ents[t - 1])

\* reset(reset): the caches of the flagged slots are cleared.
RecentReset(caches, flags) ==
    [s \in 1..Len(caches) |-> IF s <= Len(flags) /\ flags[s] THEN <<>> ELSE caches[s]]

\* The ids of the cache and of the chunk, in order of appearance.
RECURSIVE CandidateList(_, _, _)
CandidateList(cache, ents, t) ==
    IF t = 0 THEN cache
    ELSE LET before == CandidateList(cache, ents, t - 1)
         IN IF ents[t] = 0 \/ ents[t] \in Elems(before) THEN before
            ELSE Append(before, ents[t])

Pad(seq, width) == seq \o [k \in 1..(width - Len(seq)) |-> 0]
MaxLen(seqs) ==
    CHOOSE n \in { Len(seqs[s]) : s \in 1..Len(seqs) } :
       \A s \in 1..Len(seqs) : Len(seqs[s]) <= n

EntityIds(labels) == [s \in 1..Len(labels) |-> [t \in 1..SeqLen |-> labels[s][t].entity_id]]

\* __call__(entity_ids): candidate_ids per slot, padded with 0 to a common
\* width, and the mask of the candidates of each position: the cache as it
\* is before the entity of that position is added.
LookupIds(caches, ents) ==
    LET lists == [s \in 1..Len(ents) |-> CandidateList(caches[s], ents[s], SeqLen)]
        width == MaxLen(lists)
    IN [s \in 1..Len(ents) |-> Pad(lists[s], width)]
LookupMask(ids, caches, ents) ==
    [s \in 1..Len(ents) |-> [t \in 1..SeqLen |->
        LET before == Elems(CacheBefore(caches[s], ents[s], t))
        IN [k \in 1..Len(ids[s]) |-> ids[s][k] # 0 /\ ids[s][k] \in before]]]
\* The caches after the call: the entities of every position were added.
LookupUpdate(caches, ents) ==
    [s \in 1..Len(caches) |->
        IF s <= Len(ents) THEN CacheBefore(caches[s], ents[s], SeqLen + 1) ELSE caches[s]]

\* --- the recurrent state
\* The state (h, c) of one slot is modelled by what it was computed from: the
\* inputs (layer and number of the forward call) the slot has consumed since
\* its state was zero.
ZeroHidden == [h |-> <<>>, c |-> <<>>]
Lstm(prev, x) == [h |-> Append(prev.h, x), c |-> Append(prev.c, x)]

AnySet(flags) == \E s \in 1..Len(flags) : flags[s]

\* Mutant of ResetState: every slot is zeroed when some slot is to be reset.
ResetStateAllSlots(state, flags) ==
    IF AnySet(flags) /\ state # <<>>
    THEN [layer \in 1..NumLayers |-> [s \in 1..Len(state[layer]) |-> ZeroHidden]]
    ELSE state

\* Mutant of ResetState: only h is zeroed.
ResetStateHOnly(state, flags) ==
    IF AnySet(flags) /\ state # <<>>
    THEN [layer \in 1..NumLayers |-> [s \in 1..Len(state[layer]) |->
             IF flags[s] THEN [h |-> <<>>, c |-> state[layer][s].c]
             ELSE state[layer][s]]]
    ELSE state

\* `if reset.any() and (self._state is not None): ...`
ResetState(state, flags) ==
    IF AnySet(flags) /\ state # <<>>
    THEN [layer \in 1..NumLayers |-> [s \in 1..Len(state[layer]) |->
             IF flags[s] THEN ZeroHidden ELSE state[layer][s]]]
    ELSE state

\* prev_hidden of _encode_source: self._state['layer_%i'] or None (<<>>).
PrevHidden(state, layer) == IF state # <<>> THEN state[layer] ELSE <<>>

\* hidden of `rnn(current_input, prev_hidden)` for a batch of B slots.
Rnn(x, prev, B) ==
    [s \in 1..B |-> Lstm(IF prev = <<>> THEN ZeroHidden ELSE prev[s], x)]

\* The batch size of reset does not fit the carried state.
Mismatch(state, B) == state # <<>> /\ Len(state[1]) # B

\* --- the losses
\* Mutant of TargetInds: the shortlist indices are used in both modes.
TargetIndsShortlist(label, shortlist_mode) == label.shortlist_ind

\* target_inds of _new_entity_loss: shortlist_inds or entity_ids.
TargetInds(label, shortlist_mode) ==
    IF shortlist_mode THEN label.shortlist_ind ELSE label.entity_id

\* A term of a loss: zero, or the negative log-probability of the target.
ZeroTerm == <<"zero">>
NllTerm(target) == <<"nll", target>>

\* target_log_probs of _new_entity_loss: `target_log_probs[~mask] = 0`.
NewEntityTerms(labels, shortlist_mode) ==
    [s \in 1..Len(labels) |-> [t \in 1..SeqLen |->
        LET target == TargetInds(labels[s][t], shortlist_mode)
        IN IF target = 0 THEN ZeroTerm ELSE NllTerm(target)]]

\* The positions `mask` selects for _new_entity_accuracy.
AccuracyPositions(labels, shortlist_mode) ==
    { ix \in (1..Len(labels)) \X (1..SeqLen) :
         TargetInds(labels[ix[1]][ix[2]], shortlist_mode) # 0 }

\* math.log(1e-45), minus infinity, and a finite log-sum-exp.
LogFloor == <<"log(1e-45)">>

\* Mutant of CandidateSet: the mask of the position is not applied.
CandidateSetUnmasked(ids, mask) == Elems(ids) \ {0}

\* The candidates masked_log_softmax(selection_logits, candidate_mask)
\* normalizes over at one position of one slot.
CandidateSet(ids, mask) == { ids[k] : k \in { k \in 1..Len(ids) : mask[k] } }

\* target_log_probs of _parent_log_probs: the log-probability of the gold
\* parent among the candidates, or the floor when `is_parent & non_null`
\* selects no candidate or a masked one.
ParentLogProbs(labels, ids, mask) ==
    [s \in 1..Len(labels) |-> [t \in 1..SeqLen |-> [p \in 1..2 |->
        LET parent == labels[s][t].parent_ids[p]
        IN IF parent # 0 /\ parent \in CandidateSet(ids[s], mask[s][t])
           THEN <<"log p", parent>>
           ELSE LogFloor]]]
NegInf == <<"-inf">>
\* The error of the builds whose torch.logsumexp cannot reduce no elements.
LogSumExpError == "RuntimeError (logsumexp)"
LogSumExp(relevant) == IF relevant = {} THEN NegInf ELSE <<"logsumexp", relevant>>

\* Mutant of RelationFill: the tensor starts at zero.
RelationFillZero == <<"0">>

\* `encoded.new_empty(*parent_ids.shape).fill_(math.log(1e-45))`
RelationFill == LogFloor

\* The groups of edges none of which has the gold target as tail: the
\* selection `log_probs.masked_select(tail_id.eq(target_id))` is empty.
EmptySelections(labels) ==
    { ix \in KnowledgeGraphLookup(labels) :
         LET parent == labels[ix[1]][ix[2]].parent_ids[ix[3]]
             target_id == labels[ix[1]][ix[2]].raw_entity_id
         IN { e \in EdgesFrom(parent) : e[2] = target_id } = {} }

\* target_log_probs of _relation_log_probs.
RelationLogProbs(labels) ==
    [s \in 1..Len(labels) |-> [t \in 1..SeqLen |-> [p \in 1..2 |->
        IF <<s, t, p>> \in KnowledgeGraphLookup(labels)
        THEN LET parent == labels[s][t].parent_ids[p]
                 target_id == labels[s][t].raw_entity_id
             IN LogSumExp({ e \in EdgesFrom(parent) : e[2] = target_id })
        ELSE RelationFill]]]

\* --- the total loss
\* `alpha: float = 2.0`, `beta: float = 1.0`
DefaultAlpha == 2
DefaultBeta == 1

\* The alpha or beta argument of __init__: omitted (<<>>) or given.
PenaltyArgs == { <<>>, <<0>>, <<3>> }
Param(arg, default) == IF arg = <<>> THEN default ELSE arg[1]

\* 'loss' of _forward_loop, by the coefficient of each of its terms: the
\* three losses, and alpha_loss and beta_loss of _encode_source, which are
\* added only `if self._alpha:` and `if self._beta:`.
TotalLoss(alpha, beta) ==
    [mention_type_loss |-> 1, new_entity_loss |-> 1, knowledge_graph_entity_loss |-> 1,
     alpha_loss |-> IF alpha # 0 THEN alpha ELSE 0,
     beta_loss |-> IF beta # 0 THEN beta ELSE 0]

\* --- the scorer
\* What a forward returned is gone once another call is made or it raises.
NoOutputs ==
    /\ prev_hidden' = <<>>
    /\ candidate_ids' = <<>>
    /\ candidate_mask' = <<>>
    /\ new_entity_terms' = <<>>
    /\ accuracy_positions' = {}
    /\ parent_log_probs' = <<>>
    /\ relation_log_probs' = <<>>
    /\ loss' = <<>>

\* __init__(..., alpha, beta, ...) of a scorer, an omitted argument being <<>>.
ScorerInit(alpha, beta) ==
    /\ InitReader /\ mode = "discriminative"
    /\ Constructed
    /\ op = "init"
    /\ raised = "none"
    /\ calls = 0
    /\ training = TRUE
    /\ use_shortlist \in BOOLEAN
    /\ _state = <<>>
    /\ recent = [s \in 1..MaxBatch |-> <<>>]
    /\ reset = <<>>
    /\ batch = <<>>
    /\ prev_hidden = <<>>
    /\ candidate_ids = <<>>
    /\ candidate_mask = <<>>
    /\ new_entity_terms = <<>>
    /\ accuracy_positions = {}
    /\ parent_log_probs = <<>>
    /\ relation_log_probs = <<>>
    /\ appended = [s \in 1..MaxBatch |-> {}]
    /\ penalty_args = [alpha |-> alpha, beta |-> beta]
    /\ _alpha = Param(alpha, DefaultAlpha)
    /\ _beta = Param(beta, DefaultBeta)
    /\ loss = <<>>

\* A scorer constructed without alpha and beta.
InitDisc == ScorerInit(<<>>, <<>>)

\* forward(source, reset, ..., entity_ids, ...): the state reset, then
\* _forward_loop: _encode_source and the losses.
Forward(flags, labels) ==
    /\ op # "none"
    /\ calls < MaxCalls
    /\ calls' = calls + 1
    /\ op' = "forward"
    /\ reset' = flags
    /\ batch' = labels
    /\ IF Mismatch(_state, Len(flags))
       THEN \* h[:, reset, :] or the rnn rejects the batch size
            /\ raised' = IF AnySet(flags) THEN "IndexError" ELSE "RuntimeError"
            /\ NoOutputs
            /\ UNCHANGED <<_state, recent, appended>>
       ELSE LET state == ResetState(_state, flags)
                caches == RecentReset(recent, flags)
                ents == EntityIds(labels)
            IN /\ _state' = [layer \in 1..NumLayers |->
                                Rnn(<<layer, calls + 1>>, PrevHidden(state, layer),
                                    Len(flags))]
               /\ recent' = LookupUpdate(caches, ents)
               /\ appended' =
                     [s \in 1..MaxBatch |->
                         IF s <= Len(flags)
                         THEN (IF flags[s] THEN {} ELSE appended[s])
                              \cup (Elems(ents[s]) \ {0})
                         ELSE appended[s]]
               /\ \/ \* the call returns; torch.logsumexp of an empty selection,
                     \* where the build accepts it, is minus infinity
                     /\ raised' = "none"
                     /\ prev_hidden' = [layer \in 1..NumLayers |-> PrevHidden(state, layer)]
                     /\ new_entity_terms' = NewEntityTerms(labels, use_shortlist)
                     /\ accuracy_positions' = AccuracyPositions(labels, use_shortlist)
                     /\ candidate_ids' = LookupIds(caches, ents)
                     /\ candidate_mask' = LookupMask(candidate_ids', caches, ents)
                     /\ parent_log_probs' =
                           ParentLogProbs(labels, candidate_ids', candidate_mask')
                     /\ relation_log_probs' = RelationLogProbs(labels)
                     /\ loss' = TotalLoss(_alpha, _beta)
                  \/ \* torch.logsumexp rejects an empty selection: the state
                     \* and the cache were already updated
                     /\ EmptySelections(labels) # {}
                     /\ raised' = LogSumExpError
                     /\ NoOutputs
    /\ UNCHANGED <<training, use_shortlist, penalty_args, _alpha, _beta,
                   readerVars, kglmVars, nlmVars, configVars>>

\* train(mode)
Train(m) ==
    /\ op # "none"
    /\ op' = "train"
    /\ training' = m
    /\ _state' = <<>>
    /\ raised' = "none"
    /\ reset' = <<>>
    /\ batch' = <<>>
    /\ NoOutputs
    /\ UNCHANGED <<calls, use_shortlist, recent, appended, penalty_args, _alpha, _beta,
                   readerVars, kglmVars, nlmVars, configVars>>

\* eval()
Eval ==
    /\ op # "none"
    /\ op' = "eval"
    /\ training' = FALSE
    /\ _state' = <<>>
    /\ raised' = "none"
    /\ reset' = <<>>
    /\ batch' = <<>>
    /\ NoOutputs
    /\ UNCHANGED <<calls, use_shortlist, recent, appended, penalty_args, _alpha, _beta,
                   readerVars, kglmVars, nlmVars, configVars>>

NextDisc ==
    \/ \E B \in 1..MaxBatch : \E flags \in [1..B -> BOOLEAN] : \E k \in 1..Len(LabelCycle) :
          Forward(flags, Batch(k, B))
    \/ \E m \in BOOLEAN : Train(m)
    \/ Eval

SpecDisc == InitDisc /\ [][NextDisc]_vars

\* The scoring calls of a scorer constructed with any penalty weights.
InitLoss == \E alpha \in PenaltyArgs, beta \in PenaltyArgs : ScorerInit(alpha, beta)
NextLoss ==
    \E B \in 1..MaxBatch : \E flags \in [1..B -> BOOLEAN] : \E k \in 1..Len(LabelCycle) :
       calls < MaxLossCalls /\ Forward(flags, Batch(k, B))
SpecLoss == InitLoss /\ [][NextLoss]_vars

\* ======================================================================
\* Properties of EnhancedWikitextKglmReader (specification Spec)
\* ======================================================================

\* Python index p of a label array.
At(arr, p) == arr[p + 1]

\* The Python indices of the label arrays.
Positions == 0 .. (Len(mention_type) - 1)

\* The offset each mode is to use: labels of token i go to position i in
\* generative mode and to position i + 1 in discriminative mode.
ModeOffset == IF mode = "generative" THEN 0 ELSE 1

\* The label arrays exist: text_to_instance was given annotations.
Encoding == pc \in {"loop", "done"} /\ Len(mention_type) > 0

Ann(j) == annotations[j]
AnnIds == 1 .. Len(annotations)
TokenIndices(j) == { i \in 0..Len(tokens) : Ann(j).span[1] <= i /\ i < Ann(j).span[2] }
SpanPositions(j) == { i + ModeOffset : i \in TokenIndices(j) }
IsNew(j) == Ann(j).relation = <<NEW_RELATION>>

\* The annotation is not skipped: its id normalizes to a knowledge-base id,
\* the date placeholder or the quantity placeholder.
Tracked(j) == normalize_entity_id(Ann(j).id) # None
Entity(j) == normalize_entity_id(Ann(j).id)

\* The last non-skipped annotation whose span covers position p (0: none).
Writers(p) == { j \in AnnIds : Tracked(j) /\ p \in SpanPositions(j) }
LastWriter(p) ==
    IF Writers(p) = {} THEN 0
    ELSE CHOOSE j \in Writers(p) : \A k \in Writers(p) : k <= j

\* Rank of annotation j's entity in order of first appearance among the
\* non-skipped annotations (the first entity has rank 1).
AppearanceRank(j) ==
    LET first == CHOOSE k \in AnnIds :
                    /\ Tracked(k) /\ Entity(k) = Entity(j)
                    /\ \A l \in 1..(k - 1) : ~(Tracked(l) /\ Entity(l) = Entity(j))
    IN Cardinality({ Entity(l) : l \in { l \in 1..first : Tracked(l) } })

\* Rank of annotation j's entity among the entities of all annotations up to j.
RankAmongAll(j) == Cardinality({ Entity(l) : l \in 1..j })

MinOf(a, b) == IF a < b THEN a ELSE b

\* The array a per-token label field of the instance is built from.
LabelArray(name) ==
    CASE name = "raw_entity_ids" -> raw_entity_ids
      [] name = "entity_ids" -> entity_ids
      [] name = "parent_ids" -> parent_ids
      [] name = "relations" -> relations
      [] name = "mention_type" -> mention_type
      [] name = "shortlist_inds" -> shortlist_inds
      [] name = "alias_copy_inds" -> alias_copy_inds

PerTokenFields ==
    {"raw_entity_ids", "entity_ids", "parent_ids", "relations", "mention_type",
     "shortlist_inds", "alias_copy_inds"}

NewMentionLabels ==
    Encoding =>
       \A j \in AnnIds : \A p \in SpanPositions(j) :
          (Tracked(j) /\ IsNew(j) /\ LastWriter(p) = j) =>
             /\ At(mention_type, p) = 1
             /\ At(shortlist_inds, p) > 0
             /\ At(shortlist_inds, p) = AppearanceRank(j)

\* C2 witness: the second of two new mentions of different entities has
\* been written with shortlist index 2.
NewMentionLabelsWitness ==
    /\ pc = "done"
    /\ Len(annotations) = 2
    /\ Tracked(1) /\ Tracked(2) /\ IsNew(1) /\ IsNew(2)
    /\ Entity(1) # Entity(2)
    /\ \E p \in SpanPositions(2) : LastWriter(p) = 2 /\ At(shortlist_inds, p) = 2
    /\ \E p \in SpanPositions(1) : LastWriter(p) = 1 /\ At(shortlist_inds, p) = 1

\* C2 (original statement): after encode, for every annotation with
\* relations == ["@@NEW@@"], every token position of the span has
\* mentionType 1 and a shortlist index > 0 equal to the rank of its entity in
\* order of first appearance among the document's annotations.
NewMentionLabelsAllAnnotations ==
    (pc = "done" /\ Encoding) =>
       \A j \in AnnIds : \A p \in SpanPositions(j) :
          IsNew(j) =>
             /\ At(mention_type, p) = 1
             /\ At(shortlist_inds, p) > 0
             /\ At(shortlist_inds, p) = RankAmongAll(j)

\* C3 (as amended): for every non-skipped derived annotation, every span
\* position that no later non-skipped annotation covers has mentionType 2,
\* relations equal to the first min(K, MAX_PARENTS) given relations and
\* parentIds equal to the normalized forms of the first min(K, MAX_PARENTS)
\* given parent ids, in the given order.
DerivedMentionLabels ==
    Encoding =>
       \A j \in AnnIds : \A p \in SpanPositions(j) :
          (Tracked(j) /\ ~IsNew(j) /\ LastWriter(p) = j) =>
             LET K == Len(Ann(j).parent_id)
                 kept == MinOf(K, MAX_PARENTS)
             IN /\ At(mention_type, p) = 2
                /\ Len(At(parent_ids, p)) = kept
                /\ Len(At(relations, p)) = kept
                /\ \A k \in 1..kept :
                      /\ At(relations, p)[k] = Ann(j).relation[k]
                      /\ At(parent_ids, p)[k] = normalize_entity_id(Ann(j).parent_id[k])

\* C3 witness: a derived mention with more than MAX_PARENTS parents and one
\* with fewer have both been written.
DerivedMentionLabelsWitness ==
    /\ pc = "done"
    /\ Len(annotations) = 2
    /\ Tracked(1) /\ Tracked(2) /\ ~IsNew(1) /\ ~IsNew(2)
    /\ Len(Ann(1).parent_id) > MAX_PARENTS
    /\ Len(Ann(2).parent_id) = 3
    /\ \E p \in SpanPositions(1) : LastWriter(p) = 1 /\ Len(At(parent_ids, p)) = MAX_PARENTS
    /\ \E p \in SpanPositions(2) : LastWriter(p) = 2 /\ Len(At(parent_ids, p)) = 3

\* C3 (original statement): for every derived annotation, every token
\* position of the span has mentionType 2 and carries parentIds and relations
\* that are exactly the first min(K, MAX_PARENTS) entries of the given lists.
DerivedMentionLabelsGivenLists ==
    (pc = "done" /\ Encoding) =>
       \A j \in AnnIds : \A p \in SpanPositions(j) :
          ~IsNew(j) =>
             LET kept == MinOf(Len(Ann(j).parent_id), MAX_PARENTS)
             IN /\ At(mention_type, p) = 2
                /\ At(relations, p) = SubSeq(Ann(j).relation, 1, kept)
                /\ At(parent_ids, p) = SubSeq(Ann(j).parent_id, 1, kept)

\* The entities of the non-skipped annotations in order of first occurrence,
\* after the padding sentinel.
RECURSIVE FirstOccurrences(_)
FirstOccurrences(anns) ==
    IF anns = <<>> THEN <<DEFAULT_PADDING_TOKEN>>
    ELSE LET before == FirstOccurrences(SubSeq(anns, 1, Len(anns) - 1))
             e == normalize_entity_id(anns[Len(anns)].id)
         IN IF e = None \/ (\E k \in 1..Len(before) : before[k] = e)
            THEN before
            ELSE Append(before, e)

\* The shortlist and its reverse lookup agree, entry 0 is the padding
\* sentinel, no entity is listed twice, and the shortlist is the list of
\* first occurrences of the document (so it is a function of the document).
ShortlistWellFormed ==
    Encoding =>
       /\ Len(shortlist) >= 1
       /\ shortlist[1] = DEFAULT_PADDING_TOKEN
       /\ \A k, l \in 1..Len(shortlist) : shortlist[k] = shortlist[l] => k = l
       /\ DOMAIN reverse_shortlist = { shortlist[k] : k \in 1..Len(shortlist) }
       /\ \A k \in 1..Len(shortlist) : reverse_shortlist[shortlist[k]] = k - 1
       /\ shortlist = FirstOccurrences(annotations)

\* Processing an annotation only appends to the shortlist, by at most one
\* entry, and leaves every index already assigned as it is.
ShortlistAppendOnly ==
    (pc = "loop" /\ pc' \in {"loop", "done"}) =>
       /\ Len(shortlist') \in {Len(shortlist), Len(shortlist) + 1}
       /\ SubSeq(shortlist', 1, Len(shortlist)) = shortlist
       /\ \A x \in DOMAIN reverse_shortlist :
             x \in DOMAIN reverse_shortlist' /\ reverse_shortlist'[x] = reverse_shortlist[x]

\* C4: while the annotations of one document are processed the shortlist is
\* append-only and duplicate-free, entry 0 is the padding sentinel,
\* reverse_shortlist[shortlist[k]] == k, an entity's index never changes once
\* assigned (indices 1, 2, 3, ... in order of first occurrence), and the
\* shortlist is determined by the document alone.
ShortlistStable == []ShortlistWellFormed /\ [][ShortlistAppendOnly]_vars

\* C4 witness: a second mention of an entity already on the shortlist (two
\* raw ids with one normalized id) has been processed without a new entry.
ShortlistStableWitness ==
    /\ pc = "done"
    /\ Len(annotations) = 2
    /\ Tracked(1) /\ Tracked(2)
    /\ Ann(1).id # Ann(2).id
    /\ Entity(1) = Entity(2)
    /\ Len(shortlist) = 2
    /\ reverse_shortlist[Entity(2)] = 1

\* C5: an annotation whose entity id does not normalize to a knowledge-base
\* id, date placeholder or quantity placeholder changes no label array and
\* adds nothing to the shortlist, raises nothing, and the loop goes on.
SkipLeavesLabels ==
    [][ (/\ pc = "loop"
         /\ Len(annotations') = Len(annotations) + 1
         /\ normalize_entity_id(annotations'[Len(annotations')].id) = None)
        => (/\ pc' = "loop"
            /\ UNCHANGED kglmVars) ]_vars

\* C5 witness: an annotation after a skipped one has been processed and
\* written.
SkipLeavesLabelsWitness ==
    /\ pc = "done"
    /\ Len(annotations) = 2
    /\ ~Tracked(1) /\ TokenIndices(1) # {}
    /\ Tracked(2)
    /\ \E p \in SpanPositions(2) : At(mention_type, p) # 0
    /\ Len(shortlist) = 2

\* Position p is covered by the span of some non-skipped annotation, at the
\* offset of the mode.
Covered(p) == Writers(p) # {}

\* C6: every label array uses the offset of the mode for every annotation
\* (0 in generative mode, +1 in discriminative mode): a position carries
\* labels exactly when a non-skipped span covers it at that offset, and every
\* written position lies inside the label arrays.
OffsetInvariant ==
    /\ pc # "IndexError"
    /\ Encoding =>
          /\ \A j \in AnnIds : SpanPositions(j) \subseteq Positions
          /\ \A p \in Positions :
                /\ At(mention_type, p) # 0 <=> Covered(p)
                /\ At(raw_entity_ids, p) # DEFAULT_PADDING_TOKEN <=> Covered(p)
                /\ At(entity_ids, p) # DEFAULT_PADDING_TOKEN <=> Covered(p)
                /\ At(shortlist_inds, p) # 0 => Covered(p)
                /\ At(relations, p) # <<DEFAULT_PADDING_TOKEN>> => Covered(p)
                /\ At(parent_ids, p) # <<DEFAULT_PADDING_TOKEN>> => Covered(p)
                /\ mode = "generative" => (At(alias_copy_inds, p) # 0 => Covered(p))

\* C6 witness: a discriminative instance whose annotation spans the whole
\* document, so that the last position of the arrays is written.
OffsetInvariantWitness ==
    /\ pc = "done"
    /\ mode = "discriminative"
    /\ Len(tokens) = 4
    /\ \E j \in AnnIds : Tracked(j) /\ Ann(j).span = <<0, 2>>
    /\ At(mention_type, 0) = 0
    /\ At(mention_type, 2) # 0

\* C7: after encoding any list of annotations, at every target position:
\* mentionType 2 implies non-empty parentIds and relations of equal length
\* <= MAX_PARENTS; mentionType other than 2 implies both lists are the
\* padding sentinel list; mentionType 1 implies shortlist index > 0;
\* mentionType 0 implies entityId and rawEntityId are the padding sentinel.
LabelSetInvariant ==
    (pc = "done" /\ Encoding) =>
       \A p \in Positions :
          /\ At(mention_type, p) = 2 =>
                /\ Len(At(parent_ids, p)) > 0
                /\ Len(At(parent_ids, p)) = Len(At(relations, p))
                /\ Len(At(parent_ids, p)) <= MAX_PARENTS
          /\ At(mention_type, p) # 2 =>
                /\ At(parent_ids, p) = <<DEFAULT_PADDING_TOKEN>>
                /\ At(relations, p) = <<DEFAULT_PADDING_TOKEN>>
          /\ At(mention_type, p) = 1 => At(shortlist_inds, p) > 0
          /\ At(mention_type, p) = 0 =>
                /\ At(entity_ids, p) = DEFAULT_PADDING_TOKEN
                /\ At(raw_entity_ids, p) = DEFAULT_PADDING_TOKEN

\* Decoding of mention spans: the maximal runs of positions with a non-zero
\* mention type and the same entity id, shifted back by the mode offset.
InRun(a, b) ==
    /\ a <= b
    /\ \A p \in a..b : At(mention_type, p) # 0 /\ At(entity_ids, p) = At(entity_ids, a)
MaximalRun(a, b) ==
    /\ InRun(a, b)
    /\ (a - 1 \in Positions => ~InRun(a - 1, b))
    /\ (b + 1 \in Positions => ~InRun(a, b + 1))
DecodedSpans ==
    { <<r[1] - ModeOffset, r[2] + 1 - ModeOffset, At(entity_ids, r[1])>> :
         r \in { r \in Positions \X Positions : MaximalRun(r[1], r[2]) } }

\* The annotations that are encoded at all: not skipped, span not empty.
EncodedAnns == { j \in AnnIds : Tracked(j) /\ TokenIndices(j) # {} }

\* The spans and (normalized) entity ids of the encoded annotations.
AnnotatedSpans == { <<Ann(j).span[1], Ann(j).span[2], Entity(j)>> : j \in EncodedAnns }

NonOverlapping ==
    \A j, k \in AnnIds : j # k => TokenIndices(j) \cap TokenIndices(k) = {}
NonTruncated == \A j \in AnnIds : Len(Ann(j).relation) <= MAX_PARENTS
\* No span ends where a span of the same entity begins.
NoAbuttingSameEntity ==
    \A j, k \in EncodedAnns :
       (j # k /\ Ann(j).span[2] = Ann(k).span[1]) => Entity(j) # Entity(k)

\* C8 (as amended): for every document whose annotations are
\* non-overlapping and non-truncated and in which no encoded span ends where
\* an encoded span of the same normalized entity id begins, decoding the
\* mention spans from the label arrays reconstructs exactly the span
\* boundaries and normalized entity ids of the encoded annotations (those
\* not skipped and with a non-empty span).
RoundTrip ==
    (pc = "done" /\ Encoding /\ NonOverlapping /\ NonTruncated /\ NoAbuttingSameEntity)
    => DecodedSpans = AnnotatedSpans

\* C8 witness: two abutting mentions of different entities have been
\* encoded and decode to two spans.
RoundTripWitness ==
    /\ pc = "done"
    /\ Len(annotations) = 2
    /\ Tracked(1) /\ Tracked(2)
    /\ Entity(1) # Entity(2)
    /\ Ann(1).span = <<0, 1>>
    /\ Ann(2).span = <<1, 2>>
    /\ Cardinality(DecodedSpans) = 2

\* C8 (original statement): for every document whose annotations are
\* non-overlapping and non-truncated, decoding reconstructs exactly the
\* original span boundaries and entity ids (of the annotations that are
\* encoded at all).
RoundTripAllDocuments ==
    (pc = "done" /\ Encoding /\ NonOverlapping /\ NonTruncated)
    => DecodedSpans = AnnotatedSpans

\* C9: shortlist_inds holds, at every position of every non-skipped span, the
\* shortlist index of that span's entity (new and derived mentions alike),
\* and 0 at every position outside all spans.
ShortlistIndsAllMentions ==
    (pc = "done" /\ Encoding) =>
       \A p \in Positions :
          At(shortlist_inds, p) =
             IF Covered(p) THEN reverse_shortlist[Entity(LastWriter(p))] ELSE 0

\* ======================================================================
\* Properties of EnhancedWikitextEntityNlmReader (specification SpecNlm)
\* ======================================================================

\* Array position i + 1 (after the start sentinel) of token index i lies in
\* the span of some annotation.
NlmCovered(p) == \E j \in AnnIds : \E i \in TokenIndices(j) : p = i + 1

\* The annotation processed by this step writes, for each token index i of
\* its span [s, e), entity_types = 1 and mention_lengths = e - i at array
\* position i + 1: the span length at the first token, 1 at the last.
NlmSpanLabels ==
    (pc = "loop" /\ Len(annotations') = Len(annotations) + 1) =>
       LET a == annotations'[Len(annotations')]
           s == a.span[1]
           e == a.span[2]
       IN /\ pc' = "loop"
          /\ \A i \in s..(e - 1) :
                /\ entity_types'[(i + 1) + 1] = 1
                /\ mention_lengths'[(i + 1) + 1] = e - i
                /\ i > s => mention_lengths'[(i + 1) + 1] < mention_lengths'[i + 1]
          /\ s < e => /\ mention_lengths'[(s + 1) + 1] = e - s
                      /\ mention_lengths'[e + 1] = 1

\* Every position outside all spans keeps entity_types 0, entity_ids 0 and
\* mention_lengths 1.
NlmOutsideSpans ==
    (pc \in {"loop", "done"} /\ Len(entity_types) > 0) =>
       \A p \in 0..(Len(entity_types) - 1) :
          ~NlmCovered(p) =>
             /\ At(entity_types, p) = 0
             /\ At(nlm_entity_ids, p) = 0
             /\ At(mention_lengths, p) = 1

\* C10: for every annotation with span [s, e), each token index i in the
\* span gets, at array position i + 1, entity_types = 1 and mention_lengths
\* = e - i, strictly decreasing from the span length down to 1; every
\* position outside all spans has entity_types = 0, entity_ids = 0 and
\* mention_lengths = 1.
MentionLengthCountdown == [][NlmSpanLabels]_vars /\ []NlmOutsideSpans

\* C10 witness: an annotation spanning both tokens of a document has been
\* written with mention lengths 2, 1 after the start sentinel.
MentionLengthCountdownWitness ==
    /\ mode = "none"
    /\ pc = "done"
    /\ Len(annotations) = 1
    /\ Ann(1).span = <<0, 2>>
    /\ mention_lengths = <<1, 2, 1, 1>>
    /\ entity_types = <<0, 1, 1, 0>>

\* ======================================================================
\* Properties of EnhancedWikitextKglmReader.__init__ (specification SpecConfig)
\* ======================================================================

\* The argument is a dictionary without a single-id indexer under key.
LacksSingleId(d, key) == ~d.none /\ <<key, "SingleIdTokenIndexer">> \notin d.items

\* The same, for a dictionary that has entries.
NonEmptyLacksSingleId(d, key) == d.items # {} /\ LacksSingleId(d, key)

\* A reader exists and can encode documents.
ReaderObtained == pc \in {"idle", "loop", "done", "IndexError"}

\* Every reader that exists has a valid mode and, in each of its four
\* indexer dictionaries, a single-id indexer under the required name.
ReaderWellConfigured ==
    ReaderObtained =>
       /\ mode \in {"generative", "discriminative"}
       /\ <<"tokens", "SingleIdTokenIndexer">> \in token_indexers.items
       /\ <<"entity_ids", "SingleIdTokenIndexer">> \in entity_indexers.items
       /\ <<"raw_entity_ids", "SingleIdTokenIndexer">> \in raw_entity_indexers.items
       /\ <<"relations", "SingleIdTokenIndexer">> \in relation_indexers.items

\* __init__ raises ConfigurationError exactly when the mode is invalid or a
\* non-empty indexer dictionary lacks its single-id indexer, and returns a
\* reader otherwise.
InitRaisesOnInvalid ==
    pc = "__init__" =>
       LET invalid ==
              \/ args.mode \notin {"generative", "discriminative"}
              \/ NonEmptyLacksSingleId(args.token_indexers, "tokens")
              \/ NonEmptyLacksSingleId(args.entity_indexers, "entity_ids")
              \/ NonEmptyLacksSingleId(args.raw_entity_indexers, "raw_entity_ids")
              \/ NonEmptyLacksSingleId(args.relation_indexers, "relations")
       IN /\ invalid => pc' = "ConfigurationError"
          /\ ~invalid => pc' = "idle"

\* C11 (as amended): constructing the reader with a mode other than
\* "generative" or "discriminative", or with a non-empty token / entity /
\* raw-entity / relation indexer dictionary that lacks its required single-id
\* indexer, raises ConfigurationError at construction; an absent or empty
\* dictionary is replaced by the default, so every reader obtained has a
\* valid mode and its four single-id indexers.
ConfigurationChecked == [][InitRaisesOnInvalid]_vars /\ []ReaderWellConfigured

\* C11 witness: a construction with a wrongly typed indexer has raised
\* (the mode and the indexers were assigned before the check).
ConfigurationCheckedWitness ==
    /\ pc = "ConfigurationError"
    /\ mode = "discriminative"
    /\ HasKey(entity_indexers, "entity_ids")
    /\ Get(entity_indexers, "entity_ids") = "TokenCharactersIndexer"
    /\ token_indexers = DefaultIndexers("tokens")

\* C11 (original statement): constructing the reader with an invalid mode, or
\* with an indexer dictionary that lacks its required single-id indexer,
\* raises ConfigurationError.
ConfigurationErrorOnEveryLack ==
    [][ (/\ pc = "__init__"
         /\ \/ args.mode \notin {"generative", "discriminative"}
            \/ LacksSingleId(args.token_indexers, "tokens")
            \/ LacksSingleId(args.entity_indexers, "entity_ids")
            \/ LacksSingleId(args.raw_entity_indexers, "raw_entity_ids")
            \/ LacksSingleId(args.relation_indexers, "relations"))
        => pc' = "ConfigurationError" ]_vars

\* ======================================================================
\* Overlapping and empty spans (specification Spec)
\* ======================================================================

\* The labels annotation j writes on its own at a position of its span.
AloneMentionType(j) == IF IsNew(j) THEN 1 ELSE 2
AloneParentIds(j) ==
    IF IsNew(j) THEN <<DEFAULT_PADDING_TOKEN>>
    ELSE [k \in 1..MinOf(Len(Ann(j).parent_id), MAX_PARENTS) |->
             normalize_entity_id(Ann(j).parent_id[k])]
AloneRelations(j) ==
    IF IsNew(j) THEN <<DEFAULT_PADDING_TOKEN>>
    ELSE SubSeq(Ann(j).relation, 1, MinOf(Len(Ann(j).relation), MAX_PARENTS))
\* The shortlist index of a derived mention is 0 by the code and the index
\* of its entity by the data model: either is accepted here.
AloneShortlistInds(j) ==
    IF IsNew(j) THEN {AppearanceRank(j)} ELSE {0, AppearanceRank(j)}

\* C17: when spans overlap, at every shared position the labels after
\* encoding are those of the later (non-skipped) annotation: mention type,
\* entity id, raw entity id, parent and relation lists and shortlist index
\* equal what that annotation alone writes there, nothing is left over from
\* the earlier one.
OverlapLaterWins ==
    (pc = "done" /\ Encoding) =>
       \A p \in Positions :
          Cardinality(Writers(p)) >= 2 =>
             LET j == LastWriter(p)
             IN /\ At(mention_type, p) = AloneMentionType(j)
                /\ At(entity_ids, p) = Entity(j)
                /\ At(raw_entity_ids, p) = Ann(j).id
                /\ At(parent_ids, p) = AloneParentIds(j)
                /\ At(relations, p) = AloneRelations(j)
                /\ At(shortlist_inds, p) \in AloneShortlistInds(j)

\* Annotation j has an empty span.
ZeroLength(a) == a.span[1] = a.span[2]

\* The label arrays (everything of the encoding but the shortlist).
labelArrays ==
    <<raw_entity_ids, entity_ids, relations, parent_ids, shortlist_inds,
      mention_type, alias_copy_inds>>

\* Processing a non-skipped annotation with an empty span changes no label
\* array and raises nothing; the shortlist stays or gains its entity.
ZeroLengthStep ==
    (/\ pc = "loop"
     /\ Len(annotations') = Len(annotations) + 1
     /\ ZeroLength(annotations'[Len(annotations')])
     /\ normalize_entity_id(annotations'[Len(annotations')].id) # None)
    => LET e == normalize_entity_id(annotations'[Len(annotations')].id)
       IN /\ pc' = "loop"
          /\ UNCHANGED labelArrays
          /\ shortlist' = IF \E k \in 1..Len(shortlist) : shortlist[k] = e
                          THEN shortlist
                          ELSE Append(shortlist, e)

\* C18 (as amended): an annotation with a zero-length span writes no label:
\* every per-token label array is the same as if the annotation were not in
\* the list; its entity, when not skipped and not yet listed, is still
\* appended to the shortlist.
ZeroLengthWritesNoLabel == [][ZeroLengthStep]_vars

\* C18 witness: after a zero-length mention of one entity a mention of
\* another entity has been written; both are on the shortlist.
ZeroLengthWritesNoLabelWitness ==
    /\ pc = "done"
    /\ Len(annotations) = 2
    /\ Tracked(1) /\ ZeroLength(Ann(1))
    /\ Tracked(2) /\ ~ZeroLength(Ann(2)) /\ IsNew(2)
    /\ Entity(1) # Entity(2)
    /\ Len(shortlist) = 3
    /\ \E p \in SpanPositions(2) : At(shortlist_inds, p) = 2

\* The annotations with a non-empty span, in order.
NonEmptyAnnotations == SelectSeq(annotations, LAMBDA a : ~ZeroLength(a))

\* Index of entity e in the shortlist of the given annotations.
IndexIn(anns, e) ==
    CHOOSE k \in 0..Len(anns) : FirstOccurrences(anns)[k + 1] = e

\* C18 (original statement): the encoded output is the same as if the
\* zero-length annotations were not in the list: the shortlist is that of
\* the other annotations and the shortlist index of a new mention is its
\* entity's index in that shortlist.
ZeroLengthAsIfAbsent ==
    (pc = "done" /\ Encoding) =>
       /\ shortlist = FirstOccurrences(NonEmptyAnnotations)
       /\ \A p \in Positions :
             (LastWriter(p) # 0 /\ IsNew(LastWriter(p))) =>
                At(shortlist_inds, p) = IndexIn(NonEmptyAnnotations, Entity(LastWriter(p)))

\* ======================================================================
\* Properties of KglmDisc (specification SpecDisc)
\* ======================================================================

\* The last call was a forward that returned.
Scored == op = "forward" /\ raised = "none"

\* The slots and positions of the last forward.
SlotsOf(flags) == 1..Len(flags)
PositionsOfChunk == 1..SeqLen

\* The state of a slot that has consumed nothing but the given call.
FreshAfter(layer, call) == [h |-> << <<layer, call>> >>, c |-> << <<layer, call>> >>]

\* The non-padding entities of slot s of the batch at the positions before t.
EntitiesBefore(labels, s, t) ==
    { labels[s][u].entity_id : u \in 1..(t - 1) } \ {0}

\* The candidates the mask of position t of slot s lets through.
MaskedIn(s, t) ==
    { candidate_ids[s][k] : k \in { k \in 1..Len(candidate_ids[s]) : candidate_mask[s][t][k] } }

\* C12: in every forward whose reset flag is true for slot s, the state of
\* slot s (h and c of every layer) handed to the encoder is zero or None and
\* the cache of slot s is empty before the lookup: the new state of slot s
\* depends on this call alone, the candidates of its position t are entities
\* of this call's positions before t, and so is what the cache holds after.
ResetClearsSlot ==
    Scored =>
       \A s \in SlotsOf(reset) :
          reset[s] =>
             /\ \A layer \in 1..NumLayers :
                   /\ prev_hidden[layer] # <<>> =>
                         /\ prev_hidden[layer][s].h = <<>>
                         /\ prev_hidden[layer][s].c = <<>>
                   /\ _state[layer][s] = FreshAfter(layer, calls)
             /\ \A t \in PositionsOfChunk :
                   /\ MaskedIn(s, t) \subseteq EntitiesBefore(batch, s, t)
                   /\ \A p \in 1..2 :
                         parent_log_probs[s][t][p] # LogFloor =>
                            batch[s][t].parent_ids[p] \in EntitiesBefore(batch, s, t)
             /\ Elems(recent[s]) \subseteq EntitiesBefore(batch, s, SeqLen + 1)

\* C12 witness: the second forward resets slot 1 of a carried state and not
\* slot 2, whose state goes on from the first call.
ResetClearsSlotWitness ==
    /\ Scored
    /\ calls = 2
    /\ Len(reset) = 2
    /\ reset[1] /\ ~reset[2]
    /\ prev_hidden[1] # <<>>
    /\ prev_hidden[1][1] = ZeroHidden
    /\ Len(_state[1][2].h) = 2
    /\ recent[1] # <<>>

\* A forward step that returns hands the encoder, for every layer, None
\* when no state is carried, and otherwise for each slot its carried state
\* when the slot is not reset and the zero state when it is.
CarriedStep ==
    (op' = "forward" /\ calls' = calls + 1 /\ raised' = "none") =>
       \A layer \in 1..NumLayers :
          IF _state = <<>>
          THEN prev_hidden'[layer] = <<>>
          ELSE \A s \in SlotsOf(reset') :
                  /\ ~reset'[s] => prev_hidden'[layer][s] = _state[layer][s]
                  /\ reset'[s] => prev_hidden'[layer][s] = ZeroHidden

\* What a forward raises when its batch size does not fit the carried state.
MismatchErrors == {"IndexError", "RuntimeError"}

\* A forward that gets to the encoder stores a state for every slot of its
\* batch, one that raises before it leaves the stored state alone, and train
\* and eval set the stored state to None.
StoredStep ==
    /\ (op' = "forward" /\ calls' = calls + 1 /\ raised' \notin MismatchErrors) =>
          \A layer \in 1..NumLayers : Len(_state'[layer]) = Len(reset')
    /\ (op' = "forward" /\ calls' = calls + 1 /\ raised' \in MismatchErrors) =>
          _state' = _state
    /\ op' \in {"train", "eval"} => _state' = <<>>

\* C13 (as amended): for a slot s whose reset flag is false, the prior state
\* handed to the encoder is exactly the state stored for slot s by the most
\* recent earlier forward that reached the encoder (resetting other slots
\* leaves it unchanged), provided neither train() nor eval() was called
\* since; the prior state is None on
\* the first call and on the first call after train() or eval(), and zero
\* for a slot after its reset.
CarriedState == [][CarriedStep /\ StoredStep]_vars

\* C13 witness: the second forward, with no phase switch in between, goes on
\* from the state of the first in slot 2 and resets slot 1.
CarriedStateWitness ==
    /\ Scored
    /\ calls = 2
    /\ Len(reset) = 2
    /\ reset[1] /\ ~reset[2]
    /\ \A layer \in 1..NumLayers :
          /\ prev_hidden[layer][2].h = << <<layer, 1>> >>
          /\ _state[layer][2].h = << <<layer, 1>>, <<layer, 2>> >>
          /\ _state[layer][1].h = << <<layer, 2>> >>

\* C13 (original statement): for a slot s whose reset flag is false, the
\* prior state handed to the encoder is the state stored for slot s by the
\* previous forward: the state the second forward stores for s was computed
\* from the first call's and the second's input.
CarriedFromPreviousCall ==
    (Scored /\ calls = 2) =>
       \A s \in SlotsOf(reset) :
          ~reset[s] =>
             \A layer \in 1..NumLayers :
                /\ _state[layer][s].h = << <<layer, 1>>, <<layer, 2>> >>
                /\ _state[layer][s].c = << <<layer, 1>>, <<layer, 2>> >>

\* C14: after train() or eval() no carried state survives: the recurrent
\* state is None and the recency cache of every slot is empty.
PhaseSwitchInvalidates ==
    op \in {"train", "eval"} =>
       /\ _state = <<>>
       /\ \A s \in 1..Len(recent) : recent[s] = <<>>

\* C15: a forward whose reset flags do not have the batch size of the
\* carried state does not fail: all carried state is discarded and the
\* call goes on from empty state.
MismatchRecovered ==
    [][ (/\ op' = "forward" /\ calls' = calls + 1
         /\ _state # <<>> /\ Len(reset') # Len(_state[1]))
        => (/\ raised' = "none"
            /\ \A layer \in 1..NumLayers : \A s \in SlotsOf(reset') :
                  _state'[layer][s] = FreshAfter(layer, calls')) ]_vars

\* What has been added to the cache of slot s since its last reset, before
\* position t of the forward this step makes.
AppendedBefore(s, t) ==
    (IF reset'[s] THEN {} ELSE appended[s]) \cup EntitiesBefore(batch', s, t)

\* The candidates of position t of slot s hold only entities added before t
\* since the last reset of the slot, and a gold parent gets a probability
\* above the floor only when it is such an entity.
CausalStep ==
    (op' = "forward" /\ calls' = calls + 1 /\ raised' = "none") =>
       \A s \in SlotsOf(reset') : \A t \in PositionsOfChunk :
          /\ { candidate_ids'[s][k] :
                  k \in { k \in 1..Len(candidate_ids'[s]) : candidate_mask'[s][t][k] } }
                \subseteq AppendedBefore(s, t)
          /\ \A p \in 1..2 :
                parent_log_probs'[s][t][p] # LogFloor =>
                   batch'[s][t].parent_ids[p] \in AppendedBefore(s, t)

\* C16 (as amended): the candidate parent set used to score position t of a
\* slot contains only entities appended at positions before t since the
\* slot's last reset; the entity labeled at position t is appended only after
\* the candidates for t have been produced, so it is in the candidate set of
\* its own position only when it was also appended at an earlier position.
CacheCausal == [][CausalStep]_vars

\* C16 witness: a gold parent of position 1 that is the entity of position 2
\* is among the candidate ids, is masked at position 1 and gets the floor.
CacheCausalWitness ==
    /\ Scored
    /\ \E s \in SlotsOf(reset) :
          /\ reset[s]
          /\ batch[s][1].parent_ids[2] = batch[s][2].entity_id
          /\ batch[s][2].entity_id \in Elems(candidate_ids[s])
          /\ MaskedIn(s, 1) = {}
          /\ MaskedIn(s, 2) = {batch[s][1].entity_id}
          /\ parent_log_probs[s][1][2] = LogFloor

\* C16 (original statement): the entity labeled at position t is never in
\* the candidate set of position t.
NeverOwnCandidate ==
    Scored =>
       \A s \in SlotsOf(reset) : \A t \in PositionsOfChunk :
          batch[s][t].entity_id \notin MaskedIn(s, t)

\* C19: in shortlist mode and in full-vocabulary mode alike, the new-entity
\* loss gets a zero term from every position whose gold mention type is not
\* 1, and the new-entity accuracy is given only positions whose gold mention
\* type is 1.
NewEntityOnlyNewMentions ==
    Scored =>
       \A s \in SlotsOf(reset) : \A t \in PositionsOfChunk :
          batch[s][t].mention_type # 1 =>
             /\ new_entity_terms[s][t] = ZeroTerm
             /\ <<s, t>> \notin accuracy_positions

\* The gold parent p of position t of slot s has no outgoing edge in the
\* knowledge graph (it may not be in the graph at all).
NoOutgoingEdge(s, t, p) ==
    /\ batch[s][t].parent_ids[p] # 0
    /\ ~ \E e \in Edges : e[1] = batch[s][t].parent_ids[p]

\* C20: the relation log-probability of a gold parent that has no outgoing
\* edge, or is not in the graph, is the floor log(1e-45): it is not minus
\* infinity and the call returns.
RelationFloor ==
    Scored =>
       \A s \in SlotsOf(reset) : \A t \in PositionsOfChunk : \A p \in 1..2 :
          NoOutgoingEdge(s, t, p) =>
             /\ relation_log_probs[s][t][p] = <<"log(1e-45)">>
             /\ relation_log_probs[s][t][p] # NegInf

\* C20 witness: a call has scored a parent without edges (3), a parent that
\* is not in the graph (4) and a parent with an edge to the gold entity (2).
RelationFloorWitness ==
    /\ Scored
    /\ \E s \in SlotsOf(reset) :
          /\ batch[s][1].parent_ids = <<3, 2>>
          /\ batch[s][2].parent_ids = <<4, 1>>
          /\ relation_log_probs[s][1][1] = LogFloor
          /\ relation_log_probs[s][2][1] = LogFloor
          /\ relation_log_probs[s][1][2] \notin {LogFloor, NegInf}

\* ======================================================================
\* Properties of the total loss (specification SpecLoss)
\* ======================================================================

\* C21: the total loss a forward returns is mention_type_loss +
\* new_entity_loss + knowledge_graph_entity_loss plus the two penalties, each
\* scaled by its coefficient, and for a scorer constructed without alpha and
\* beta both coefficients are zero, so the total is the sum of the three.
TotalLossDefaultZero ==
    Scored =>
       /\ loss.mention_type_loss = 1
       /\ loss.new_entity_loss = 1
       /\ loss.knowledge_graph_entity_loss = 1
       /\ loss.alpha_loss = _alpha
       /\ loss.beta_loss = _beta
       /\ (penalty_args.alpha = <<>> /\ penalty_args.beta = <<>>) =>
             (loss.alpha_loss = 0 /\ loss.beta_loss = 0)

\* ======================================================================
\* Properties of the relation log-probabilities (specification SpecDisc)
\* ======================================================================

\* The gold parent p of position t of slot s has an outgoing edge.
HasOutgoingEdge(s, t, p) ==
    /\ batch[s][t].parent_ids[p] # 0
    /\ \E e \in Edges : e[1] = batch[s][t].parent_ids[p]

\* The (relation, tail) edges of that parent whose tail is the gold target.
EdgesToTarget(s, t, p) ==
    { <<e[2], e[3]>> : e \in { e \in Edges : /\ e[1] = batch[s][t].parent_ids[p]
                                             /\ e[3] = batch[s][t].raw_entity_id } }

\* C22: for every gold parent that has an outgoing edge, the relation
\* log-probability is the log-sum-exp over the parent's edges whose tail is
\* the gold target, and when there is no such edge the call does not raise
\* and the result is the floor log(1e-45), not minus infinity.
RelationLogSumExpOrFloor ==
    (op = "forward" /\ raised \notin MismatchErrors) =>
       /\ raised = "none"
       /\ \A s \in SlotsOf(reset) : \A t \in PositionsOfChunk : \A p \in 1..2 :
             HasOutgoingEdge(s, t, p) =>
                relation_log_probs[s][t][p] =
                   IF EdgesToTarget(s, t, p) = {} THEN <<"log(1e-45)">>
                   ELSE <<"logsumexp", EdgesToTarget(s, t, p)>>

\* ======================================================================
\* Entity indices of EnhancedWikitextEntityNlmReader (specification SpecNlm)
\* ======================================================================

\* The annotations whose span holds the token of array position p, and the
\* last of them, which wrote the labels the position ends with.
NlmWriters(p) == { j \in AnnIds : (p - 1) \in TokenIndices(j) }
NlmLastWriter(p) == CHOOSE j \in NlmWriters(p) : \A k \in NlmWriters(p) : k <= j

\* C23: the integer written to entity_ids identifies the entity: two
\* annotated positions carry the same non-zero index if and only if their
\* annotations have the same id.
EntityIdsIdentify ==
    (pc \in {"loop", "done"} /\ Len(nlm_entity_ids) > 0) =>
       \A p \in 0..(Len(nlm_entity_ids) - 1) : \A q \in 0..(Len(nlm_entity_ids) - 1) :
          (NlmWriters(p) # {} /\ NlmWriters(q) # {}) =>
             /\ At(nlm_entity_ids, p) # 0
             /\ (At(nlm_entity_ids, p) = At(nlm_entity_ids, q))
                   <=> (Ann(NlmLastWriter(p)).id = Ann(NlmLastWriter(q)).id)

\* ======================================================================
\* Parent ids of EnhancedWikitextKglmReader (specification Spec)
\* ======================================================================

\* A knowledge-base id (starting with P or Q), the date placeholder or the
\* quantity placeholder.
IsNormalizedId(x) == x = DATE \/ x = QUANTITY \/ x[1] \in {"P", "Q"}

\* C24: every parent id in the parent_ids label array is the padding
\* sentinel or a normalized entity id; a trackable annotation with an
\* unnormalizable parent id puts no null value into the output.
ParentIdsNormalized ==
    Encoding =>
       \A p \in Positions : \A k \in 1..Len(At(parent_ids, p)) :
          \/ At(parent_ids, p)[k] = DEFAULT_PADDING_TOKEN
          \/ IsNormalizedId(At(parent_ids, p)[k])

====
